---- MODULE Spec2Model ----
(***************************************************************************)
(* Model of ghostferry's IterativeVerifier (iterative_verifier.go): the    *)
(* ReverifyStore, the ingestion channel with its single consumer, the      *)
(* binlog event listener, the pre-cutover table scan, the cutover          *)
(* reverification and the background run started by StartInBackground.     *)
(*                                                                         *)
(* A Go panic ends the program: it is recorded in `panicked` and every     *)
(* action is disabled afterwards.                                          *)
(***************************************************************************)
EXTENDS Integers, Sequences, FiniteSets, TLC

(***************************************************************************)
(* Bounds of the model and the configuration under which it is explored.   *)
(***************************************************************************)
\* IterativeVerifier.Concurrency: the width of both worker pools.
Concurrency == 2
\* CursorConfig.BatchSize: the batch size VerifyDuringCutover freezes with.
BatchSize == 2
\* The primary keys are 1..MaxPk.
MaxPk == 3
\* The primary keys of the rows the pre-cutover scan finds are 1..MaxLivePk.
MaxLivePk == 1
\* The batch sizes the store is frozen with when it is exercised alone.
MaxBatchSize == 3
\* How many rows the store exercised alone counts at most (RowCount).
MaxRowCount == 5
\* How many times the binlog streamer invokes the listener.
MaxListenerCalls == 1
\* The longest batch of events handed to the listener.
MaxEvents == 2
\* How many pages the cursor of one table scan yields at most.
MaxPages == 1
\* How many background goroutines StartInBackground may start.
MaxBackground == 2
\* The pks of the fingerprint maps compareHashes is called with on its own
\* are 1..MaxMapPk.
MaxMapPk == 2
\* How many columns the rows have whose fingerprints are computed on their own.
MaxColumns == 2

Pks == 1..MaxPk

\* The *schema.Table values of the run: schema and name.
T1 == [Schema |-> "s1", Name |-> "t1"]
T2 == [Schema |-> "s1", Name |-> "t2"]
T3 == [Schema |-> "s2", Name |-> "t2"]
SchemaTables == {T1, T2, T3}

\* IterativeVerifier.IgnoredTables: bare table names.
IgnoredTables == <<"t2">>

VARIABLES
    \* IterativeVerifier fields
    Tables,                      \* v.Tables: the tables the pre-cutover scan covers
    logger,                      \* TRUE when v.logger is not nil
    reverifyStore,               \* *ReverifyStore (allocated = FALSE: nil)
    reverifyChan,                \* "nil", "open" or "closed"
    beforeCutoverVerifyDone,
    verifyDuringCutoverStarted,
    wg,                          \* [set, n]: v.wg and its counter
    verificationResultAndStatus,
    verificationErr,
    backgroundVerificationWg,    \* [set, id]: the pointer and the WaitGroup it names
    bgWgCount,                   \* the counter of each background WaitGroup
    backgroundDoneTime,          \* TRUE when set
    listenerAttached,            \* BinlogStreamer holds v.binlogEventListener
    cursorConfig,                \* v.CursorConfig: [BatchSize]
    \* goroutines
    caller,                      \* the driver's goroutine calling the public methods
    vdc,                         \* the runs of VerifyDuringCutover, by who runs it
    bg,                          \* the background goroutines of StartInBackground
    consumer,                    \* the goroutine running consumeReverifyChan
    lsn,                         \* the binlog streamer inside binlogEventListener
    scanPool, scanW,             \* the worker pool of VerifyBeforeCutover
    allBatches, batchsize,       \* the result and argument of the last freeze
    cutPool, cutW, results,      \* the worker pool of VerifyDuringCutover
    panicked,                    \* "" or the panic that ended the program (a nil
                                 \* dereference names the nil pointer)
    \* history
    sent,                        \* (table, pk) of every completed channel send
    added,                       \* (table, pk) of every Add call
    dupAdded,                    \* some Add call met a pair already stored
    frozen,                      \* FreezeAndBatchByTable has been called
    processed,                   \* results of the batches reverified at cutover
    \* a function called on its own
    call                         \* its arguments and what it returned

vars == <<call, Tables, logger, reverifyStore, reverifyChan, beforeCutoverVerifyDone,
          verifyDuringCutoverStarted, wg, verificationResultAndStatus,
          verificationErr, backgroundVerificationWg, bgWgCount,
          backgroundDoneTime, listenerAttached, cursorConfig, caller, vdc, bg,
          consumer, lsn, scanPool, scanW, allBatches, batchsize, cutPool, cutW, results,
          panicked, sent, added, dupAdded, frozen, processed>>

verifierVars == <<call, Tables, logger, reverifyChan, beforeCutoverVerifyDone,
                  verifyDuringCutoverStarted, wg, verificationResultAndStatus,
                  verificationErr, backgroundVerificationWg, bgWgCount,
                  backgroundDoneTime, listenerAttached, cursorConfig, caller, vdc,
                  bg, consumer, lsn, scanPool, scanW, cutPool, cutW, results, panicked, sent,
                  processed>>

(***************************************************************************)
(* ReverifyStore                                                           *)
(***************************************************************************)
NewTableIdentifierFromSchemaTable(table) ==
    [SchemaName |-> table.Schema, TableName |-> table.Name]

EmptyMap == [t \in {} |-> {}]

MapPut(m, k, v) == [t \in DOMAIN m \cup {k} |-> IF t = k THEN v ELSE m[t]]

NilStore ==
    [allocated |-> FALSE, MapStoreNil |-> TRUE, MapStore |-> EmptyMap,
     SortedStore |-> <<>>, RowCount |-> 0]

NewReverifyStore ==
    [allocated |-> TRUE, MapStoreNil |-> FALSE, MapStore |-> EmptyMap,
     SortedStore |-> <<>>, RowCount |-> 0]

\* (r *ReverifyStore) Add: the store after the call.
Add(r, entry) ==
    LET tableId == NewTableIdentifierFromSchemaTable(entry.Table)
        m1 == IF tableId \in DOMAIN r.MapStore
              THEN r.MapStore
              ELSE MapPut(r.MapStore, tableId, {})
    IN  IF entry.Pk \notin m1[tableId]
        THEN [r EXCEPT !.MapStore = MapPut(m1, tableId, m1[tableId] \cup {entry.Pk}),
                       !.RowCount = r.RowCount + 1]
        ELSE [r EXCEPT !.MapStore = m1]

\* The orders in which a range over a Go map (or set) may visit its keys.
RECURSIVE Perms(_)
Perms(S) ==
    IF S = {} THEN {<<>>}
    ELSE UNION {{<<x>> \o p : p \in Perms(S \ {x})} : x \in S}

BatchIsFullOffByOne(pkBatch, size) == Len(pkBatch) > size
\* len(pkBatch) >= batchsize
BatchIsFull(pkBatch, size) == Len(pkBatch) >= size

KeepPkBatch(pkBatch, size) == pkBatch
\* pkBatch = make([]uint64, 0, batchsize) after a batch is appended
NextPkBatch(pkBatch, size) == <<>>

\* The inner loop of FreezeAndBatchByTable over one table's pkSet, visited in
\* pkOrder, and the trailing partial batch: the batches appended for tableId.
RECURSIVE BatchPks(_, _, _, _)
BatchPks(tableId, pkOrder, pkBatch, size) ==
    IF pkOrder = <<>>
    THEN IF Len(pkBatch) > 0
         THEN <<[Pks |-> pkBatch, Table |-> tableId]>>
         ELSE <<>>
    ELSE LET appended == Append(pkBatch, Head(pkOrder))
         IN  IF BatchIsFull(appended, size)
             THEN <<[Pks |-> appended, Table |-> tableId]>>
                  \o BatchPks(tableId, Tail(pkOrder), NextPkBatch(appended, size), size)
             ELSE BatchPks(tableId, Tail(pkOrder), appended, size)

\* The outer loop over r.MapStore visited in tableOrder: every SortedStore the
\* map iteration orders can build.
RECURSIVE FreezeTables(_, _, _)
FreezeTables(m, tableOrder, size) ==
    IF tableOrder = <<>> THEN {<<>>}
    ELSE {BatchPks(Head(tableOrder), pkOrder, <<>>, size) \o rest :
            pkOrder \in Perms(m[Head(tableOrder)]),
            rest \in FreezeTables(m, Tail(tableOrder), size)}

\* (r ReverifyStore) FreezeAndBatchByTable: the possible (returned batches,
\* store after the call). The receiver is a copy of the store: the assignments
\* to r.SortedStore and r.MapStore change the copy, while delete(r.MapStore, _)
\* empties the map the store shares with the copy.
FreezeAndBatchByTable(r, size) ==
    IF r.MapStoreNil
    THEN {[ret |-> r.SortedStore, store |-> r]}
    ELSE {[ret |-> sorted, store |-> [r EXCEPT !.MapStore = EmptyMap]] :
            sorted \in UNION {FreezeTables(r.MapStore, tableOrder, size) :
                                tableOrder \in Perms(DOMAIN r.MapStore)}}

\* The (table, pk) pairs a list of batches holds.
BatchPairs(batches) ==
    UNION {{[Table |-> batches[i].Table, Pk |-> batches[i].Pks[j]] :
              j \in DOMAIN batches[i].Pks} : i \in DOMAIN batches}

\* The (table, pk) pairs a store's map holds.
StorePairs(r) ==
    UNION {{[Table |-> t, Pk |-> p] : p \in r.MapStore[t]} : t \in DOMAIN r.MapStore}

EntryPair(entry) ==
    [Table |-> NewTableIdentifierFromSchemaTable(entry.Table), Pk |-> entry.Pk]

(***************************************************************************)
(* Values                                                                  *)
(***************************************************************************)
Runs == 0..MaxBackground          \* 0: the caller's own VerifyDuringCutover
Background == 1..MaxBackground
Workers == 1..Concurrency

\* "" as a VerificationResult message
NoMessage == <<>>
\* var result VerificationResult: the zero value
ZeroResult == [DataCorrect |-> FALSE, Message |-> NoMessage]
\* results[i] == nil
NilResult == <<>>

NilWaitGroup == [set |-> FALSE, n |-> 0]

\* No function is called on its own.
NoCall == [op |-> "none"]

IdleRun == [pc |-> "unused", ret |-> NilResult]
IdleBg == [pc |-> "unused", deferWg |-> 0]
IdleWorker == [job |-> 0, pages |-> 0, pending |-> <<>>]
IdleListener == [pc |-> "idle", evs |-> <<>>, idx |-> 0, ret |-> "none", calls |-> 0]

\* A verifier as the caller builds it: no field set by Initialize yet.
InitVerifier ==
    /\ logger = FALSE
    /\ reverifyChan = "nil"
    /\ beforeCutoverVerifyDone = FALSE
    /\ verifyDuringCutoverStarted = FALSE
    /\ wg = NilWaitGroup
    /\ verificationResultAndStatus =
          [VerificationResult |-> ZeroResult, StartTime |-> FALSE, DoneTime |-> FALSE]
    /\ verificationErr = "nil"
    /\ backgroundVerificationWg = [set |-> FALSE, id |-> 0]
    /\ bgWgCount = [k \in Background |-> 0]
    /\ backgroundDoneTime = FALSE
    /\ listenerAttached = FALSE
    /\ cursorConfig = [BatchSize |-> BatchSize]
    /\ caller = [pc |-> "idle", method |-> "none", err |-> "nil"]
    /\ vdc = [r \in Runs |-> IdleRun]
    /\ bg = [k \in Background |-> IdleBg]
    /\ consumer = [pc |-> "none", entry |-> <<>>, origin |-> ""]
    /\ lsn = IdleListener
    /\ scanPool = [next |-> 1, err |-> "nil"]
    /\ scanW = [j \in Workers |-> IdleWorker]
    /\ allBatches = <<>>
    /\ batchsize = 0
    /\ cutPool = [next |-> 1, err |-> "nil"]
    /\ cutW = [j \in Workers |-> 0]
    /\ results = [j \in Workers |-> NilResult]
    /\ panicked = ""
    /\ sent = {}
    /\ added = {}
    /\ dupAdded = FALSE
    /\ frozen = FALSE
    /\ processed = {}

Init ==
    /\ InitVerifier
    /\ Tables = <<T1>>
    /\ reverifyStore = NilStore
    /\ call = NoCall

(***************************************************************************)
(* Fingerprint comparison                                                  *)
(***************************************************************************)
\* The row fingerprints a database may return (MD5 digests, never empty).
Hashes == {"h1", "h2"}
\* The nil []byte a Go map yields for a missing key.
NilHash == ""

\* What GetHashes may return for a set of pks: a row may be missing.
HashMaps(pks) == UNION {[present -> Hashes] : present \in SUBSET pks}

SeqToSet(q) == {q[i] : i \in DOMAIN q}

HashOf(hashes, pk) == IF pk \in DOMAIN hashes THEN hashes[pk] ELSE NilHash

TargetLoopOnly(source, target) ==
    {pk \in DOMAIN target :
        HashOf(source, pk) # target[pk] \/ pk \notin DOMAIN source}
\* compareHashes: mismatchSet after the loop over target and the loop over
\* source. bytes.Equal holds of a missing key's nil and an empty fingerprint.
mismatchSet(source, target) ==
    {pk \in DOMAIN target :
        HashOf(source, pk) # target[pk] \/ pk \notin DOMAIN source}
    \cup
    {pk \in DOMAIN source :
        source[pk] # HashOf(target, pk) \/ pk \notin DOMAIN target}

\* compareHashes: the slices it may return, the keys of mismatchSet appended
\* in the order the range over the map visits them.
compareHashes(source, target) == Perms(mismatchSet(source, target))

\* GetHashes under WithRetries(5, 0, ...): the possible (hashes, err) of one
\* fetch for the pks. The fetch may fail after its retries.
GetHashes(pks) ==
    {[hashes |-> [pk \in {} |-> NilHash], err |-> "fetch error"]}
    \cup {[hashes |-> hashes, err |-> "nil"] : hashes \in HashMaps(SeqToSet(pks))}

\* compareFingerprints after wg.Wait(): the possible (mismatchedPks, err)
\* given what the two fetches returned.
compareFingerprintsOf(sourceFetch, targetFetch) ==
    IF sourceFetch.err # "nil"
    THEN {[mismatchedPks |-> <<>>, err |-> sourceFetch.err]}
    ELSE IF targetFetch.err # "nil"
    THEN {[mismatchedPks |-> <<>>, err |-> targetFetch.err]}
    ELSE {[mismatchedPks |-> order, err |-> "nil"] :
             order \in compareHashes(sourceFetch.hashes, targetFetch.hashes)}

\* compareFingerprints: the possible (mismatchedPks, err).
compareFingerprints(pks) ==
    UNION {compareFingerprintsOf(sourceFetch, targetFetch) :
              sourceFetch \in GetHashes(pks), targetFetch \in GetHashes(pks)}

\* strconv.FormatUint(pk, 10) of each mismatched pk
PkStrings(mismatchedPks) == [idx \in DOMAIN mismatchedPks |-> ToString(mismatchedPks[idx])]

ErrorAsFailure(table, c) ==
    IF Len(c.mismatchedPks) > 0 \/ c.err # "nil"
    THEN [Result |-> [DataCorrect |-> FALSE,
                      Message |-> <<table, PkStrings(c.mismatchedPks)>>],
          Error |-> "nil"]
    ELSE [Result |-> [DataCorrect |-> TRUE, Message |-> NoMessage], Error |-> "nil"]
\* verifyPksDuringCutover after compareFingerprints returned c: the
\* (VerificationResult, error) it returns. The message names the table and
\* the mismatched pks, joined in the order of the slice.
verifyPksDuringCutoverOf(table, c) ==
    IF c.err # "nil"
    THEN [Result |-> ZeroResult, Error |-> c.err]
    ELSE IF Len(c.mismatchedPks) > 0
    THEN [Result |-> [DataCorrect |-> FALSE,
                      Message |-> <<table, PkStrings(c.mismatchedPks)>>],
          Error |-> "nil"]
    ELSE [Result |-> [DataCorrect |-> TRUE, Message |-> NoMessage], Error |-> "nil"]

\* verifyPksDuringCutover: the possible (VerificationResult, error).
verifyPksDuringCutover(table, pks) ==
    {verifyPksDuringCutoverOf(table, c) : c \in compareFingerprints(pks)}

OnlyErrored(r) == r.Error # "nil"
\* verificationResultAndError.ErroredOrFailed
ErroredOrFailed(r) == r.Error # "nil" \/ ~r.Result.DataCorrect

\* TableSchemaCache.Get
TableSchemaCacheGet(schemaName, tableName) ==
    CHOOSE t \in SchemaTables : t.Schema = schemaName /\ t.Name = tableName

(***************************************************************************)
(* WorkerPool: Concurrency workers over jobs 1..n, handed out in order.    *)
(* After a job returned an error no further job is started; the jobs in    *)
(* flight complete. Each worker keeps its last result.                     *)
(***************************************************************************)
PoolMayStart(pool, n) == pool.err = "nil" /\ pool.next <= n

PoolHasRun(pool, n, busy) == (pool.err # "nil" \/ pool.next > n) /\ busy = {}

Running == panicked = ""

(***************************************************************************)
(* consumeReverifyChan                                                     *)
(***************************************************************************)
\* entry, open := <-v.reverifyChan with the channel closed: return, and the
\* deferred v.wg.Done() of the goroutine.
ConsumerExit ==
    /\ Running
    /\ consumer.pc = "recv"
    /\ reverifyChan = "closed"
    /\ consumer' = [consumer EXCEPT !.pc = "done"]
    /\ wg' = [wg EXCEPT !.n = @ - 1]
    /\ UNCHANGED <<call, Tables, logger, reverifyStore, reverifyChan, beforeCutoverVerifyDone,
                   verifyDuringCutoverStarted, verificationResultAndStatus,
                   verificationErr, backgroundVerificationWg, bgWgCount,
                   backgroundDoneTime, listenerAttached, cursorConfig, caller, vdc, bg, lsn,
                   scanPool, scanW, allBatches, batchsize, cutPool, cutW, results,
                   panicked, sent, added, dupAdded, frozen, processed>>

ConsumerReturns == "done"
\* for { ... }: after the Add the consumer receives again.
ConsumerLoops == "recv"

\* v.reverifyStore.Add(entry)
ConsumerAdd ==
    /\ Running
    /\ consumer.pc = "add"
    /\ reverifyStore' = Add(reverifyStore, consumer.entry[1])
    /\ consumer' = [pc |-> ConsumerLoops, entry |-> <<>>, origin |-> ""]
    /\ added' = added \cup {EntryPair(consumer.entry[1])}
    /\ dupAdded' = (dupAdded \/ EntryPair(consumer.entry[1]) \in StorePairs(reverifyStore))
    /\ UNCHANGED <<call, Tables, logger, reverifyChan, beforeCutoverVerifyDone,
                   verifyDuringCutoverStarted, wg, verificationResultAndStatus,
                   verificationErr, backgroundVerificationWg, bgWgCount,
                   backgroundDoneTime, listenerAttached, cursorConfig, caller, vdc, bg, lsn,
                   scanPool, scanW, allBatches, batchsize, cutPool, cutW, results,
                   panicked, sent, frozen, processed>>

\* A send on the unbuffered channel completes when the consumer receives it.
CanHandOver == reverifyChan = "open" /\ consumer.pc = "recv"

\* The consumer after entry, open := <-v.reverifyChan received `entry`.
Received(entry, origin) == [pc |-> "add", entry |-> <<entry>>, origin |-> origin]

(***************************************************************************)
(* binlogEventListener                                                     *)
(***************************************************************************)
\* The DMLEvents of the change stream: TableSchema() and PK(), which may fail.
\* Row MaxPk of T1 changes, or one of T3 (whose name is ignored, in a schema no
\* scanned table has), or an event of T1 yields no pk.
Events ==
    {[Table |-> t, Pk |-> MaxPk, PkOk |-> TRUE] : t \in {T1, T3}}
    \cup {[Table |-> T1, Pk |-> MaxPk, PkOk |-> FALSE]}

RECURSIVE SeqsUpTo(_, _)
SeqsUpTo(S, n) ==
    IF n = 0 THEN {<<>>}
    ELSE SeqsUpTo(S, n - 1) \cup {Append(q, x) : q \in SeqsUpTo(S, n - 1), x \in S}

EventBatches == SeqsUpTo(Events, MaxEvents)

ProtocolError == "cutover has started but received binlog event!"

IgnoresNothing(table) == FALSE
\* tableIsIgnored
tableIsIgnored(table) == \E i \in DOMAIN IgnoredTables : table.Name = IgnoredTables[i]

FlagNotRead == FALSE
\* v.verifyDuringCutoverStarted.Get() at the entry of the listener
ListenerSeesCutover == verifyDuringCutoverStarted

\* The binlog streamer calls the listener with evs: the check at entry.
binlogEventListener(evs) ==
    /\ Running
    /\ listenerAttached
    /\ lsn.pc = "idle"
    /\ lsn.calls < MaxListenerCalls
    /\ lsn' = IF ListenerSeesCutover
              THEN [IdleListener EXCEPT !.ret = ProtocolError, !.calls = lsn.calls + 1]
              ELSE [pc |-> "loop", evs |-> evs, idx |-> 1, ret |-> "none",
                    calls |-> lsn.calls + 1]
    /\ UNCHANGED <<call, Tables, logger, reverifyStore, reverifyChan, beforeCutoverVerifyDone,
                   verifyDuringCutoverStarted, wg, verificationResultAndStatus,
                   verificationErr, backgroundVerificationWg, bgWgCount,
                   backgroundDoneTime, listenerAttached, cursorConfig, caller, vdc, bg, consumer,
                   scanPool, scanW, allBatches, batchsize, cutPool, cutW, results,
                   panicked, sent, added, dupAdded, frozen, processed>>

\* One iteration of the loop over evs up to the send, or the return after it.
ListenerLoop ==
    /\ Running
    /\ lsn.pc = "loop"
    /\ lsn' = IF lsn.idx > Len(lsn.evs)
              THEN [IdleListener EXCEPT !.ret = "nil", !.calls = lsn.calls]
              ELSE IF tableIsIgnored(lsn.evs[lsn.idx].Table)
              THEN [lsn EXCEPT !.idx = @ + 1]
              ELSE IF ~lsn.evs[lsn.idx].PkOk
              THEN [IdleListener EXCEPT !.ret = "pk error", !.calls = lsn.calls]
              ELSE [lsn EXCEPT !.pc = "send"]
    /\ UNCHANGED <<call, Tables, logger, reverifyStore, reverifyChan, beforeCutoverVerifyDone,
                   verifyDuringCutoverStarted, wg, verificationResultAndStatus,
                   verificationErr, backgroundVerificationWg, bgWgCount,
                   backgroundDoneTime, listenerAttached, cursorConfig, caller, vdc, bg, consumer,
                   scanPool, scanW, allBatches, batchsize, cutPool, cutW, results,
                   panicked, sent, added, dupAdded, frozen, processed>>

ListenerEntry == [Pk |-> lsn.evs[lsn.idx].Pk, Table |-> lsn.evs[lsn.idx].Table]

\* v.reverifyChan <- ReverifyEntry{Pk: pk, Table: ev.TableSchema()}
ListenerSend ==
    /\ Running
    /\ lsn.pc = "send"
    /\ IF reverifyChan = "closed"
       THEN /\ panicked' = "send on closed channel"
            /\ UNCHANGED <<lsn, consumer, sent>>
       ELSE /\ CanHandOver
            /\ consumer' = Received(ListenerEntry, "listener")
            /\ sent' = sent \cup {EntryPair(ListenerEntry)}
            /\ lsn' = [lsn EXCEPT !.pc = "loop", !.idx = @ + 1]
            /\ UNCHANGED panicked
    /\ UNCHANGED <<call, Tables, logger, reverifyStore, reverifyChan, beforeCutoverVerifyDone,
                   verifyDuringCutoverStarted, wg, verificationResultAndStatus,
                   verificationErr, backgroundVerificationWg, bgWgCount,
                   backgroundDoneTime, listenerAttached, cursorConfig, caller, vdc, bg,
                   scanPool, scanW, allBatches, batchsize, cutPool, cutW, results,
                   added, dupAdded, frozen, processed>>

(***************************************************************************)
(* VerifyBeforeCutover and verifyTableBeforeCutover                        *)
(***************************************************************************)
scanUnchanged ==
    UNCHANGED <<call, Tables, logger, reverifyStore, reverifyChan, beforeCutoverVerifyDone,
                verifyDuringCutoverStarted, wg, verificationResultAndStatus,
                verificationErr, backgroundVerificationWg, bgWgCount,
                backgroundDoneTime, listenerAttached, cursorConfig, caller, vdc, bg, lsn,
                allBatches, batchsize, cutPool, cutW, results,
                added, dupAdded, frozen, processed>>

\* The pool hands the next table to an idle worker.
ScanDispatch(j) ==
    /\ Running
    /\ caller.pc = "VerifyBeforeCutover"
    /\ PoolMayStart(scanPool, Len(Tables))
    /\ scanW[j].job = 0
    /\ scanW' = [scanW EXCEPT ![j] = [job |-> scanPool.next, pages |-> 0, pending |-> <<>>]]
    /\ scanPool' = [scanPool EXCEPT !.next = @ + 1]
    /\ UNCHANGED <<consumer, sent, panicked>>
    /\ scanUnchanged

\* cursor.Each finds no more rows: verifyTableBeforeCutover returns nil.
ScanCursorDone(j) ==
    /\ Running
    /\ scanW[j].job # 0
    /\ scanW[j].pending = <<>>
    /\ scanW' = [scanW EXCEPT ![j] = IdleWorker]
    /\ UNCHANGED <<scanPool, consumer, sent, panicked>>
    /\ scanUnchanged

\* The cursor fails, or GetUint64 fails on a row: the task returns the error.
ScanCursorError(j) ==
    /\ Running
    /\ scanW[j].job # 0
    /\ scanW[j].pending = <<>>
    /\ scanW' = [scanW EXCEPT ![j] = IdleWorker]
    /\ scanPool' = [scanPool EXCEPT !.err = IF @ = "nil" THEN "cursor error" ELSE @]
    /\ UNCHANGED <<consumer, sent, panicked>>
    /\ scanUnchanged

\* The pages a cursor may yield, in ascending pk order.
SortedSeq(S) == CHOOSE q \in Perms(S) : \A i, k \in DOMAIN q : i < k => q[i] < q[k]
Pages == {SortedSeq(S) : S \in (SUBSET (1..MaxLivePk)) \ {{}}}

\* The callback of cursor.Each on one page: compareFingerprints, then either
\* the error is returned or the mismatched pks are to be sent.
ScanPage(j) ==
    /\ Running
    /\ scanW[j].job # 0
    /\ scanW[j].pending = <<>>
    /\ scanW[j].pages < MaxPages
    /\ \E page \in Pages : \E c \in compareFingerprints(page) :
          IF c.err # "nil"
          THEN /\ scanW' = [scanW EXCEPT ![j] = IdleWorker]
               /\ scanPool' = [scanPool EXCEPT !.err = IF @ = "nil" THEN c.err ELSE @]
          ELSE /\ scanW' = [scanW EXCEPT ![j].pages = @ + 1,
                                         ![j].pending = c.mismatchedPks]
               /\ UNCHANGED scanPool
    /\ UNCHANGED <<consumer, sent, panicked>>
    /\ scanUnchanged

ScanEntry(j) == [Pk |-> Head(scanW[j].pending), Table |-> Tables[scanW[j].job]]

\* v.reverifyChan <- ReverifyEntry{Pk: pk, Table: batch.TableSchema()}
ScanSend(j) ==
    /\ Running
    /\ scanW[j].job # 0
    /\ scanW[j].pending # <<>>
    /\ IF reverifyChan = "closed"
       THEN /\ panicked' = "send on closed channel"
            /\ UNCHANGED <<scanW, consumer, sent>>
       ELSE /\ CanHandOver
            /\ consumer' = Received(ScanEntry(j), "scanner")
            /\ sent' = sent \cup {EntryPair(ScanEntry(j))}
            /\ scanW' = [scanW EXCEPT ![j].pending = Tail(@)]
            /\ UNCHANGED panicked
    /\ UNCHANGED scanPool
    /\ scanUnchanged

DoneOnSuccessOnly(err) == err = "nil"
\* v.beforeCutoverVerifyDone = true, whatever err pool.Run returned
DoneAfterScan(err) == TRUE

\* pool.Run(len(v.Tables)) has returned: the rest of VerifyBeforeCutover.
VerifyBeforeCutoverReturn ==
    /\ Running
    /\ caller.pc = "VerifyBeforeCutover"
    /\ PoolHasRun(scanPool, Len(Tables), {j \in Workers : scanW[j].job # 0})
    /\ beforeCutoverVerifyDone' = DoneAfterScan(scanPool.err)
    /\ caller' = [caller EXCEPT !.pc = "idle", !.err = scanPool.err]
    /\ UNCHANGED <<call, Tables, logger, reverifyStore, reverifyChan, verifyDuringCutoverStarted,
                   wg, verificationResultAndStatus, verificationErr,
                   backgroundVerificationWg, bgWgCount, backgroundDoneTime,
                   listenerAttached, cursorConfig, vdc, bg, consumer, lsn, scanPool, scanW,
                   allBatches, batchsize, cutPool, cutW, results, panicked, sent,
                   added, dupAdded, frozen, processed>>

(***************************************************************************)
(* The calls of the driver. It calls one public method at a time, in any   *)
(* order, with parameters that pass SanityCheckParameters, and calls       *)
(* Initialize and VerifyBeforeCutover at most once each.                   *)
(***************************************************************************)
MayCall == Running /\ caller.pc = "idle"

Called(method, pc, err) ==
    [pc |-> pc, method |-> method, err |-> err]

Initialize ==
    /\ MayCall
    /\ ~logger
    /\ logger' = TRUE
    /\ reverifyStore' = NewReverifyStore
    /\ reverifyChan' = "open"
    /\ caller' = Called("Initialize", "idle", "nil")
    /\ UNCHANGED <<call, Tables, beforeCutoverVerifyDone, verifyDuringCutoverStarted, wg,
                   verificationResultAndStatus, verificationErr,
                   backgroundVerificationWg, bgWgCount, backgroundDoneTime,
                   listenerAttached, cursorConfig, vdc, bg, consumer, lsn, scanPool, scanW,
                   allBatches, batchsize, cutPool, cutW, results, panicked, sent,
                   added, dupAdded, frozen, processed>>

\* VerifyBeforeCutover up to pool.Run: v.logger.Info on a nil logger panics;
\* otherwise the consumer goroutine is started and the listener attached.
VerifyBeforeCutover ==
    /\ MayCall
    /\ consumer.pc = "none"
    /\ IF ~logger
       THEN /\ panicked' = "nil pointer dereference: v.logger"
            /\ UNCHANGED <<wg, consumer, listenerAttached, scanPool, caller>>
       ELSE /\ wg' = [set |-> TRUE, n |-> 1]
            /\ consumer' = [consumer EXCEPT !.pc = "recv"]
            /\ listenerAttached' = TRUE
            /\ scanPool' = [next |-> 1, err |-> "nil"]
            /\ caller' = Called("VerifyBeforeCutover", "VerifyBeforeCutover", "nil")
            /\ UNCHANGED panicked
    /\ UNCHANGED <<call, Tables, logger, reverifyStore, reverifyChan, beforeCutoverVerifyDone,
                   verifyDuringCutoverStarted, verificationResultAndStatus,
                   verificationErr, backgroundVerificationWg, bgWgCount,
                   backgroundDoneTime, cursorConfig, vdc, bg, lsn, scanW, allBatches, batchsize,
                   cutPool, cutW, results, sent, added, dupAdded, frozen, processed>>

\* The caller enters VerifyDuringCutover.
VerifyDuringCutover ==
    /\ MayCall
    /\ vdc' = [vdc EXCEPT ![0] = [pc |-> "flag", ret |-> NilResult]]
    /\ caller' = Called("VerifyDuringCutover", "VerifyDuringCutover", "nil")
    /\ UNCHANGED <<call, Tables, logger, reverifyStore, reverifyChan, beforeCutoverVerifyDone,
                   verifyDuringCutoverStarted, wg, verificationResultAndStatus,
                   verificationErr, backgroundVerificationWg, bgWgCount,
                   backgroundDoneTime, listenerAttached, cursorConfig, bg, consumer, lsn,
                   scanPool, scanW, allBatches, batchsize, cutPool, cutW, results,
                   panicked, sent, added, dupAdded, frozen, processed>>

\* return result, err to the caller
VerifyDuringCutoverReturn ==
    /\ Running
    /\ caller.pc = "VerifyDuringCutover"
    /\ vdc[0].pc = "done"
    /\ caller' = [caller EXCEPT !.pc = "idle", !.err = vdc[0].ret[1].Error]
    /\ UNCHANGED <<call, Tables, logger, reverifyStore, reverifyChan, beforeCutoverVerifyDone,
                   verifyDuringCutoverStarted, wg, verificationResultAndStatus,
                   verificationErr, backgroundVerificationWg, bgWgCount,
                   backgroundDoneTime, listenerAttached, cursorConfig, vdc, bg, consumer, lsn,
                   scanPool, scanW, allBatches, batchsize, cutPool, cutW, results,
                   panicked, sent, added, dupAdded, frozen, processed>>

\* The background goroutines started so far.
Started == {k \in Background : bg[k].pc # "unused"}

StartInBackground ==
    /\ MayCall
    /\ IF ~logger
       THEN /\ caller' = Called("StartInBackground", "idle",
                                "Initialize() must be called before this")
            /\ UNCHANGED <<verificationResultAndStatus, verificationErr,
                           backgroundVerificationWg, bgWgCount, bg>>
       ELSE IF ~beforeCutoverVerifyDone
       THEN /\ caller' = Called("StartInBackground", "idle",
                                "VerifyBeforeCutover() must be called before this")
            /\ UNCHANGED <<verificationResultAndStatus, verificationErr,
                           backgroundVerificationWg, bgWgCount, bg>>
       ELSE IF verifyDuringCutoverStarted
       THEN /\ caller' = Called("StartInBackground", "idle",
                                "verification during cutover has already been started")
            /\ UNCHANGED <<verificationResultAndStatus, verificationErr,
                           backgroundVerificationWg, bgWgCount, bg>>
       ELSE /\ Cardinality(Started) < MaxBackground
            /\ verificationResultAndStatus' =
                  [VerificationResult |-> ZeroResult, StartTime |-> TRUE, DoneTime |-> FALSE]
            /\ verificationErr' = "nil"
            /\ backgroundVerificationWg' = [set |-> TRUE, id |-> Cardinality(Started) + 1]
            /\ bgWgCount' = [bgWgCount EXCEPT ![Cardinality(Started) + 1] = 1]
            /\ bg' = [bg EXCEPT ![Cardinality(Started) + 1].pc = "start"]
            /\ caller' = Called("StartInBackground", "idle", "nil")
    /\ UNCHANGED <<call, Tables, logger, reverifyStore, reverifyChan, beforeCutoverVerifyDone,
                   verifyDuringCutoverStarted, wg, backgroundDoneTime,
                   listenerAttached, cursorConfig, vdc, consumer, lsn, scanPool, scanW,
                   allBatches, batchsize, cutPool, cutW, results, panicked, sent,
                   added, dupAdded, frozen, processed>>

\* v.backgroundVerificationWg.Wait(): a nil WaitGroup panics; otherwise the
\* call returns once the counter is zero.
Wait ==
    /\ MayCall
    /\ IF ~backgroundVerificationWg.set
       THEN /\ panicked' = "nil pointer dereference: v.backgroundVerificationWg"
            /\ UNCHANGED caller
       ELSE /\ bgWgCount[backgroundVerificationWg.id] = 0
            /\ caller' = Called("Wait", "idle", "nil")
            /\ UNCHANGED panicked
    /\ UNCHANGED <<call, Tables, logger, reverifyStore, reverifyChan, beforeCutoverVerifyDone,
                   verifyDuringCutoverStarted, wg, verificationResultAndStatus,
                   verificationErr, backgroundVerificationWg, bgWgCount,
                   backgroundDoneTime, listenerAttached, cursorConfig, vdc, bg, consumer, lsn,
                   scanPool, scanW, allBatches, batchsize, cutPool, cutW, results,
                   sent, added, dupAdded, frozen, processed>>

\* Result(): the pair the call returns in the current state.
Result == <<verificationResultAndStatus, verificationErr>>

(***************************************************************************)
(* VerifyDuringCutover, run by the caller (run 0) or by a background       *)
(* goroutine (run k)                                                       *)
(***************************************************************************)
\* v.verifyDuringCutoverStarted.Set(true)
VdcSetFlag(r) ==
    /\ Running
    /\ vdc[r].pc = "flag"
    /\ verifyDuringCutoverStarted' = TRUE
    /\ vdc' = [vdc EXCEPT ![r].pc = "close"]
    /\ UNCHANGED <<call, Tables, logger, reverifyStore, reverifyChan, beforeCutoverVerifyDone,
                   wg, verificationResultAndStatus, verificationErr,
                   backgroundVerificationWg, bgWgCount, backgroundDoneTime,
                   listenerAttached, cursorConfig, caller, bg, consumer, lsn, scanPool, scanW,
                   allBatches, batchsize, cutPool, cutW, results, panicked, sent,
                   added, dupAdded, frozen, processed>>

\* close(v.reverifyChan): closing a nil or a closed channel panics.
VdcClose(r) ==
    /\ Running
    /\ vdc[r].pc = "close"
    /\ IF reverifyChan = "open"
       THEN /\ reverifyChan' = "closed"
            /\ vdc' = [vdc EXCEPT ![r].pc = "wait"]
            /\ UNCHANGED panicked
       ELSE /\ panicked' = IF reverifyChan = "nil" THEN "close of nil channel"
                           ELSE "close of closed channel"
            /\ UNCHANGED <<reverifyChan, vdc>>
    /\ UNCHANGED <<call, Tables, logger, reverifyStore, beforeCutoverVerifyDone,
                   verifyDuringCutoverStarted, wg, verificationResultAndStatus,
                   verificationErr, backgroundVerificationWg, bgWgCount,
                   backgroundDoneTime, listenerAttached, cursorConfig, caller, bg, consumer, lsn,
                   scanPool, scanW, allBatches, batchsize, cutPool, cutW, results,
                   sent, added, dupAdded, frozen, processed>>

WaitSkipped == TRUE
\* v.wg.Wait() returns: the consumer goroutine has called Done.
WaitReturns == wg.n = 0

\* v.wg.Wait(): v.wg is nil unless VerifyBeforeCutover has set it.
VdcWait(r) ==
    /\ Running
    /\ vdc[r].pc = "wait"
    /\ IF ~wg.set
       THEN /\ panicked' = "nil pointer dereference: v.wg"
            /\ UNCHANGED vdc
       ELSE /\ WaitReturns
            /\ vdc' = [vdc EXCEPT ![r].pc = "freeze"]
            /\ UNCHANGED panicked
    /\ UNCHANGED <<call, Tables, logger, reverifyStore, reverifyChan, beforeCutoverVerifyDone,
                   verifyDuringCutoverStarted, wg, verificationResultAndStatus,
                   verificationErr, backgroundVerificationWg, bgWgCount,
                   backgroundDoneTime, listenerAttached, cursorConfig, caller, bg, consumer, lsn,
                   scanPool, scanW, allBatches, batchsize, cutPool, cutW, results,
                   sent, added, dupAdded, frozen, processed>>

\* allBatches := v.reverifyStore.FreezeAndBatchByTable(int(BatchSize)), and the
\* pool of the run is set up. allBatches, the pool and results are locals of
\* the run: only the run that closed the open channel gets here (any other
\* close panics), so one copy of them is kept.
VdcFreeze(r) ==
    /\ Running
    /\ vdc[r].pc = "freeze"
    /\ \E out \in FreezeAndBatchByTable(reverifyStore, cursorConfig.BatchSize) :
          /\ allBatches' = out.ret
          /\ reverifyStore' = out.store
    /\ batchsize' = cursorConfig.BatchSize
    /\ frozen' = TRUE
    /\ cutPool' = [next |-> 1, err |-> "nil"]
    /\ cutW' = [j \in Workers |-> 0]
    /\ results' = [j \in Workers |-> NilResult]
    /\ vdc' = [vdc EXCEPT ![r].pc = "pool"]
    /\ UNCHANGED <<call, Tables, logger, reverifyChan, beforeCutoverVerifyDone,
                   verifyDuringCutoverStarted, wg, verificationResultAndStatus,
                   verificationErr, backgroundVerificationWg, bgWgCount,
                   backgroundDoneTime, listenerAttached, cursorConfig, caller, bg, consumer, lsn,
                   scanPool, scanW, panicked, sent, added, dupAdded, processed>>

cutUnchanged ==
    UNCHANGED <<call, Tables, logger, reverifyStore, reverifyChan, beforeCutoverVerifyDone,
                verifyDuringCutoverStarted, wg, verificationResultAndStatus,
                verificationErr, backgroundVerificationWg, bgWgCount,
                backgroundDoneTime, listenerAttached, cursorConfig, caller, bg, consumer,
                lsn, scanPool, scanW, allBatches, batchsize, panicked, sent,
                added, dupAdded, frozen>>

\* The pool hands the next batch to an idle worker.
CutDispatch(j) ==
    /\ Running
    /\ \E r \in Runs : vdc[r].pc = "pool"
    /\ PoolMayStart(cutPool, Len(allBatches))
    /\ cutW[j] = 0
    /\ cutW' = [cutW EXCEPT ![j] = cutPool.next]
    /\ cutPool' = [cutPool EXCEPT !.next = @ + 1]
    /\ UNCHANGED <<vdc, results, processed>>
    /\ cutUnchanged

\* Process(reverifyBatchIndex): the batch is reverified; a failed or errored
\* result is returned with the error erroredOrFailed.
CutProcess(j) ==
    /\ Running
    /\ cutW[j] # 0
    /\ \E resultAndErr \in
            verifyPksDuringCutover(
                TableSchemaCacheGet(allBatches[cutW[j]].Table.SchemaName,
                                    allBatches[cutW[j]].Table.TableName),
                allBatches[cutW[j]].Pks) :
          /\ results' = [results EXCEPT ![j] = <<resultAndErr>>]
          /\ processed' = processed \cup {resultAndErr}
          /\ cutPool' = [cutPool EXCEPT !.err =
                            IF @ = "nil" /\ ErroredOrFailed(resultAndErr)
                            THEN "reverify errored or failed" ELSE @]
    /\ cutW' = [cutW EXCEPT ![j] = 0]
    /\ UNCHANGED vdc
    /\ cutUnchanged

\* The loop over results[0..Concurrency-1] from slot i on.
RECURSIVE CollectFrom(_, _, _)
CollectFrom(i, res, current) ==
    IF i > Concurrency THEN current
    ELSE IF res[i] = NilResult THEN CollectFrom(i + 1, res, current)
    ELSE IF ErroredOrFailed(res[i][1]) THEN res[i][1]
    ELSE CollectFrom(i + 1, res, res[i][1])

\* pool.Run has returned: the loop over the results and return result, err.
VdcCollect(r) ==
    /\ Running
    /\ vdc[r].pc = "pool"
    /\ PoolHasRun(cutPool, Len(allBatches), {j \in Workers : cutW[j] # 0})
    /\ vdc' = [vdc EXCEPT ![r] =
                  [pc |-> "done",
                   ret |-> <<CollectFrom(1, results, [Result |-> ZeroResult, Error |-> "nil"])>>]]
    /\ UNCHANGED <<cutPool, cutW, results, processed>>
    /\ cutUnchanged

(***************************************************************************)
(* The goroutine of StartInBackground                                      *)
(***************************************************************************)
bgUnchanged ==
    UNCHANGED <<call, Tables, logger, reverifyStore, reverifyChan, beforeCutoverVerifyDone,
                verifyDuringCutoverStarted, wg, backgroundVerificationWg,
                listenerAttached, cursorConfig, caller, consumer, lsn, scanPool, scanW,
                allBatches, batchsize, cutPool, cutW, results, sent, added,
                dupAdded, frozen, processed>>

\* The two defer statements (the first binds the WaitGroup v names now) and
\* the call of VerifyDuringCutover.
BgStart(k) ==
    /\ Running
    /\ bg[k].pc = "start"
    /\ bg' = [bg EXCEPT ![k] = [pc |-> "run", deferWg |-> backgroundVerificationWg.id]]
    /\ vdc' = [vdc EXCEPT ![k] = [pc |-> "flag", ret |-> NilResult]]
    /\ UNCHANGED <<verificationResultAndStatus, verificationErr, bgWgCount,
                   backgroundDoneTime, panicked>>
    /\ bgUnchanged

\* v.verificationResultAndStatus.VerificationResult, v.verificationErr = ...
BgRecordResult(k) ==
    /\ Running
    /\ bg[k].pc = "run"
    /\ vdc[k].pc = "done"
    /\ verificationResultAndStatus' =
          [verificationResultAndStatus EXCEPT !.VerificationResult = vdc[k].ret[1].Result]
    /\ verificationErr' = vdc[k].ret[1].Error
    /\ bg' = [bg EXCEPT ![k].pc = "donetime"]
    /\ UNCHANGED <<vdc, bgWgCount, backgroundDoneTime, panicked>>
    /\ bgUnchanged

\* v.verificationResultAndStatus.DoneTime = time.Now()
BgRecordDoneTime(k) ==
    /\ Running
    /\ bg[k].pc = "donetime"
    /\ verificationResultAndStatus' = [verificationResultAndStatus EXCEPT !.DoneTime = TRUE]
    /\ bg' = [bg EXCEPT ![k].pc = "deferred closure"]
    /\ UNCHANGED <<vdc, verificationErr, bgWgCount, backgroundDoneTime, panicked>>
    /\ bgUnchanged

\* WaitGroup.Done: a counter below zero panics.
DonePanics(id) == bgWgCount[id] - 1 < 0

\* The deferred closure: v.backgroundDoneTime = time.Now() and Done on the
\* WaitGroup v names when the closure runs.
BgDeferredClosure(k) ==
    /\ Running
    /\ bg[k].pc = "deferred closure"
    /\ backgroundDoneTime' = TRUE
    /\ IF DonePanics(backgroundVerificationWg.id)
       THEN /\ panicked' = "sync: negative WaitGroup counter"
            /\ UNCHANGED <<bg, bgWgCount>>
       ELSE /\ bgWgCount' = [bgWgCount EXCEPT ![backgroundVerificationWg.id] = @ - 1]
            /\ bg' = [bg EXCEPT ![k].pc = "deferred Done"]
            /\ UNCHANGED panicked
    /\ UNCHANGED <<vdc, verificationResultAndStatus, verificationErr>>
    /\ bgUnchanged

\* The deferred v.backgroundVerificationWg.Done(), which runs last.
BgDeferredDone(k) ==
    /\ Running
    /\ bg[k].pc = "deferred Done"
    /\ IF DonePanics(bg[k].deferWg)
       THEN /\ panicked' = "sync: negative WaitGroup counter"
            /\ UNCHANGED <<bg, bgWgCount>>
       ELSE /\ bgWgCount' = [bgWgCount EXCEPT ![bg[k].deferWg] = @ - 1]
            /\ bg' = [bg EXCEPT ![k].pc = "exited"]
            /\ UNCHANGED panicked
    /\ UNCHANGED <<vdc, verificationResultAndStatus, verificationErr, backgroundDoneTime>>
    /\ bgUnchanged

Next ==
    \/ Initialize
    \/ VerifyBeforeCutover
    \/ VerifyBeforeCutoverReturn
    \/ VerifyDuringCutover
    \/ VerifyDuringCutoverReturn
    \/ StartInBackground
    \/ Wait
    \/ ConsumerExit
    \/ ConsumerAdd
    \/ \E evs \in EventBatches : binlogEventListener(evs)
    \/ ListenerLoop
    \/ ListenerSend
    \/ \E j \in Workers :
          \/ ScanDispatch(j)
          \/ ScanCursorDone(j)
          \/ ScanCursorError(j)
          \/ ScanPage(j)
          \/ ScanSend(j)
          \/ CutDispatch(j)
          \/ CutProcess(j)
    \/ \E r \in Runs :
          \/ VdcSetFlag(r)
          \/ VdcClose(r)
          \/ VdcWait(r)
          \/ VdcFreeze(r)
          \/ VdcCollect(r)
    \/ \E k \in Background :
          \/ BgStart(k)
          \/ BgRecordResult(k)
          \/ BgRecordDoneTime(k)
          \/ BgDeferredClosure(k)
          \/ BgDeferredDone(k)

Spec == Init /\ [][Next]_vars

(***************************************************************************)
(* The store exercised alone: any sequence of Add and FreezeAndBatchByTable *)
(* calls on one store, with any batch size.                                *)
(***************************************************************************)
Entries == {[Pk |-> pk, Table |-> t] : pk \in Pks, t \in {T1, T3}}

StoreAdd(entry) ==
    /\ reverifyStore.RowCount < MaxRowCount
    /\ reverifyStore' = Add(reverifyStore, entry)
    /\ added' = added \cup {EntryPair(entry)}
    /\ dupAdded' = (dupAdded \/ EntryPair(entry) \in StorePairs(reverifyStore))
    /\ UNCHANGED <<verifierVars, allBatches, batchsize, frozen>>

StoreFreeze(size) ==
    /\ \E out \in FreezeAndBatchByTable(reverifyStore, size) :
          /\ allBatches' = out.ret
          /\ reverifyStore' = out.store
    /\ batchsize' = size
    /\ frozen' = TRUE
    /\ UNCHANGED <<verifierVars, added, dupAdded>>

\* The state after NewReverifyStore(), with no verifier around the store.
InitStore ==
    /\ InitVerifier
    /\ Tables = <<T1>>
    /\ reverifyStore = NewReverifyStore
    /\ call = NoCall

NextStore ==
    \/ \E entry \in Entries : StoreAdd(entry)
    \/ \E size \in 1..MaxBatchSize : StoreFreeze(size)

SpecStore == InitStore /\ [][NextStore]_vars

(***************************************************************************)
(* The cutover alone: Initialize and VerifyBeforeCutover have returned,    *)
(* the store holds any set of pairs of the tables T1 and T2 (both scanned  *)
(* in that run), the batch size is any of 1..MaxBatchSize, and the caller  *)
(* calls VerifyDuringCutover.                                              *)
(***************************************************************************)
RECURSIVE AddAll(_, _)
AddAll(r, entries) ==
    IF entries = {} THEN r
    ELSE LET entry == CHOOSE e \in entries : TRUE
         IN  AddAll(Add(r, entry), entries \ {entry})

CutoverEntries == {[Pk |-> pk, Table |-> t] : pk \in Pks, t \in {T1, T2}}

InitCutover ==
    /\ call = NoCall
    /\ Tables = <<T1>>
    /\ logger = TRUE
    /\ \E entries \in SUBSET CutoverEntries :
          /\ reverifyStore = AddAll(NewReverifyStore, entries)
          /\ sent = {EntryPair(e) : e \in entries}
          /\ added = {EntryPair(e) : e \in entries}
    /\ reverifyChan = "open"
    /\ beforeCutoverVerifyDone = TRUE
    /\ verifyDuringCutoverStarted = FALSE
    /\ wg = [set |-> TRUE, n |-> 1]
    /\ verificationResultAndStatus =
          [VerificationResult |-> ZeroResult, StartTime |-> FALSE, DoneTime |-> FALSE]
    /\ verificationErr = "nil"
    /\ backgroundVerificationWg = [set |-> FALSE, id |-> 0]
    /\ bgWgCount = [k \in Background |-> 0]
    /\ backgroundDoneTime = FALSE
    /\ listenerAttached = TRUE
    /\ \E size \in 1..MaxBatchSize : cursorConfig = [BatchSize |-> size]
    /\ caller = [pc |-> "idle", method |-> "VerifyBeforeCutover", err |-> "nil"]
    /\ vdc = [r \in Runs |-> IdleRun]
    /\ bg = [k \in Background |-> IdleBg]
    /\ consumer = [pc |-> "recv", entry |-> <<>>, origin |-> ""]
    /\ lsn = IdleListener
    /\ scanPool = [next |-> Len(Tables) + 1, err |-> "nil"]
    /\ scanW = [j \in Workers |-> IdleWorker]
    /\ allBatches = <<>>
    /\ batchsize = 0
    /\ cutPool = [next |-> 1, err |-> "nil"]
    /\ cutW = [j \in Workers |-> 0]
    /\ results = [j \in Workers |-> NilResult]
    /\ panicked = ""
    /\ dupAdded = FALSE
    /\ frozen = FALSE
    /\ processed = {}

NextCutover ==
    \/ VerifyDuringCutover
    \/ VerifyDuringCutoverReturn
    \/ ConsumerExit
    \/ VdcSetFlag(0)
    \/ VdcClose(0)
    \/ VdcWait(0)
    \/ VdcFreeze(0)
    \/ VdcCollect(0)
    \/ \E j \in Workers :
          \/ CutDispatch(j)
          \/ CutProcess(j)

SpecCutover == InitCutover /\ [][NextCutover]_vars

(***************************************************************************)
(* compareHashes called on its own, with any two maps from pk to           *)
(* fingerprint bytes (the empty fingerprint included).                     *)
(***************************************************************************)
programVars == <<Tables, logger, reverifyStore, reverifyChan, beforeCutoverVerifyDone,
                 verifyDuringCutoverStarted, wg, verificationResultAndStatus,
                 verificationErr, backgroundVerificationWg, bgWgCount,
                 backgroundDoneTime, listenerAttached, cursorConfig, caller, vdc,
                 bg, consumer, lsn, scanPool, scanW, allBatches, batchsize,
                 cutPool, cutW, results, panicked, sent, added, dupAdded,
                 frozen, processed>>

\* A verifier and store that stay as built while a function is called alone.
InitProgram ==
    /\ InitVerifier
    /\ Tables = <<T1>>
    /\ reverifyStore = NilStore

Fingerprints == Hashes \cup {NilHash}

FingerprintMaps == UNION {[present -> Fingerprints] : present \in SUBSET (1..MaxMapPk)}

InitCompare ==
    /\ InitProgram
    /\ \E source \in FingerprintMaps, target \in FingerprintMaps :
          call = [op |-> "compareHashes", source |-> source, target |-> target,
                  returned |-> FALSE, mismatches |-> <<>>]

CallCompareHashes ==
    /\ ~call.returned
    /\ \E mismatches \in compareHashes(call.source, call.target) :
          call' = [call EXCEPT !.returned = TRUE, !.mismatches = mismatches]
    /\ UNCHANGED programVars

NextCompare == CallCompareHashes

SpecCompare == InitCompare /\ [][NextCompare]_vars

(***************************************************************************)
(* The row fingerprint of GetMd5HashesSql, as MySQL evaluates it, computed *)
(* for two rows of one table.                                              *)
(***************************************************************************)
\* A column value as MySQL renders it in a string context: NULL, or a string.
Null == <<>>
Str(x) == <<x>>

\* schema.TableColumn.Type: TYPE_FLOAT or another type (a string column).
ColumnTypes == {"TYPE_FLOAT", "TYPE_STRING"}

\* The values a column of the type may hold.
ColumnValues(type) ==
    IF type = "TYPE_FLOAT"
    THEN {Null, Str("0"), Str("-0"), Str("1.5")}
    ELSE {Null, Str("NULL"), Str("0"), Str("-0")}

\* MD5(x): the digest, 32 hex digits; no two strings share one.
Md5(x) == [md5 |-> x]

\* COALESCE(v, 'NULL')
Coalesce(v) == IF v = Null THEN Str("NULL") ELSE v

NoNormalization(type, v) == v
\* normalizeAndQuoteColumn: the value of the quoted column expression. For a
\* float column it is if(col = '-0', 0, col): the comparison is numeric, true
\* of 0 and of -0 and NULL for a NULL, and 0 is rendered "0".
normalizeAndQuoteColumn(type, v) ==
    IF type = "TYPE_FLOAT" /\ v \in {Str("0"), Str("-0")} THEN Str("0") ELSE v

\* rowMd5Selector: MD5(CONCAT(MD5(COALESCE(c1, 'NULL')), ...)) AS
\* row_fingerprint. The concatenation of digests of one length is the list.
rowMd5Selector(columns, row) ==
    Md5([idx \in DOMAIN columns |->
            Md5(Coalesce(normalizeAndQuoteColumn(columns[idx], row[idx])))])

Rows(columns) ==
    {row \in [DOMAIN columns -> UNION {ColumnValues(t) : t \in ColumnTypes}] :
        \A idx \in DOMAIN columns : row[idx] \in ColumnValues(columns[idx])}

InitFingerprint ==
    /\ InitProgram
    /\ \E columns \in [1..MaxColumns -> ColumnTypes] :
          \E rowA \in Rows(columns), rowB \in Rows(columns) :
             call = [op |-> "GetMd5HashesSql", columns |-> columns,
                     rowA |-> rowA, rowB |-> rowB, returned |-> FALSE,
                     fingerprintA |-> Md5(<<>>), fingerprintB |-> Md5(<<>>)]

\* The query runs: the row_fingerprint of each of the two rows.
CallGetMd5Hashes ==
    /\ ~call.returned
    /\ call' = [call EXCEPT !.returned = TRUE,
                            !.fingerprintA = rowMd5Selector(call.columns, call.rowA),
                            !.fingerprintB = rowMd5Selector(call.columns, call.rowB)]
    /\ UNCHANGED programVars

NextFingerprint == CallGetMd5Hashes

SpecFingerprint == InitFingerprint /\ [][NextFingerprint]_vars

(***************************************************************************)
(* verifyPksDuringCutover called on its own for a batch of pks of T1, with *)
(* any outcome of the two fetches.                                         *)
(***************************************************************************)
PkBatches == {SortedSeq(S) : S \in (SUBSET (1..MaxMapPk)) \ {{}}}

InitVerifyPks ==
    /\ InitProgram
    /\ \E pks \in PkBatches :
          \E sourceFetch \in GetHashes(pks), targetFetch \in GetHashes(pks) :
             call = [op |-> "verifyPksDuringCutover", table |-> T1, pks |-> pks,
                     sourceFetch |-> sourceFetch, targetFetch |-> targetFetch,
                     returned |-> FALSE,
                     ret |-> [Result |-> ZeroResult, Error |-> "nil"]]

CallVerifyPksDuringCutover ==
    /\ ~call.returned
    /\ \E c \in compareFingerprintsOf(call.sourceFetch, call.targetFetch) :
          call' = [call EXCEPT !.returned = TRUE,
                               !.ret = verifyPksDuringCutoverOf(call.table, c)]
    /\ UNCHANGED programVars

NextVerifyPks == CallVerifyPksDuringCutover

SpecVerifyPks == InitVerifyPks /\ [][NextVerifyPks]_vars

(***************************************************************************)
(* The pre-cutover phase under fair scheduling: two tables scanned by the  *)
(* pool while the listener sends, and no cutover. The Go scheduler runs    *)
(* every runnable goroutine eventually (weak fairness of each goroutine's  *)
(* steps); a sender blocked on the channel is queued and served when the   *)
(* consumer receives (strong fairness of each send). Nothing obliges the   *)
(* driver to call a method or the change stream to deliver events, and     *)
(* every cursor and fetch terminates (fairness of the scan steps).         *)
(***************************************************************************)
InitBeforeCutover ==
    /\ InitVerifier
    /\ Tables = <<T1, T2>>
    /\ reverifyStore = NilStore
    /\ call = NoCall

NextBeforeCutover ==
    \/ Initialize
    \/ VerifyBeforeCutover
    \/ VerifyBeforeCutoverReturn
    \/ ConsumerAdd
    \/ \E evs \in EventBatches : binlogEventListener(evs)
    \/ ListenerLoop
    \/ ListenerSend
    \/ \E j \in Workers :
          \/ ScanDispatch(j)
          \/ ScanCursorDone(j)
          \/ ScanCursorError(j)
          \/ ScanPage(j)
          \/ ScanSend(j)

FairScheduling ==
    /\ WF_vars(VerifyBeforeCutoverReturn)
    /\ WF_vars(ConsumerAdd)
    /\ WF_vars(ListenerLoop)
    /\ SF_vars(ListenerSend)
    /\ \A j \in Workers :
          /\ WF_vars(ScanDispatch(j))
          /\ WF_vars(ScanCursorDone(j) \/ ScanCursorError(j) \/ ScanPage(j))
          /\ SF_vars(ScanSend(j))

SpecBeforeCutover ==
    InitBeforeCutover /\ [][NextBeforeCutover]_vars /\ FairScheduling

(***************************************************************************)
(* Properties                                                              *)
(***************************************************************************)
\* How many pks a list of batches holds, repetitions counted.
RECURSIVE PkCount(_)
PkCount(batches) ==
    IF batches = <<>> THEN 0
    ELSE Len(Head(batches).Pks) + PkCount(Tail(batches))

\* A batch result that failed (a mismatch was found) or errored (a fetch failed).
Failing(p) == p.Error # "nil" \/ ~p.Result.DataCorrect

\* ({data_correct = true, message = ""}, nil)
Correct == [Result |-> [DataCorrect |-> TRUE, Message |-> NoMessage], Error |-> "nil"]

\* The table's bare name is listed in IgnoredTables.
NameIgnored(table) == \E i \in DOMAIN IgnoredTables : IgnoredTables[i] = table.Name

\* The entry the listener makes of an event.
EventPair(ev) == EntryPair([Pk |-> ev.Pk, Table |-> ev.Table])

\* C1: after Initialize and a completed VerifyBeforeCutover, when no batch
\* reverified at cutover fails or errors (the store being empty at the freeze
\* included, when no batch is run), VerifyDuringCutover returns
\* ({data_correct = true, message = ""}, nil).
C1_HappyPathReturnsCorrect ==
    (vdc[0].pc = "done" /\ \A p \in processed : ~Failing(p))
        => vdc[0].ret[1] = Correct

\* C2: when at least one batch reverified during VerifyDuringCutover failed or
\* errored, the call does not return ({data_correct = true}, nil): what it
\* returns is the result of one of the failing or errored batches.
C2_FailingBatchIsReturned ==
    (vdc[0].pc = "done" /\ \E p \in processed : Failing(p))
        => /\ Failing(vdc[0].ret[1])
           /\ vdc[0].ret[1] \in processed

\* More batches than workers were run, some passed and one failed, and the
\* call has its return value.
C2_Witness ==
    /\ vdc[0].pc = "done"
    /\ Len(allBatches) > Concurrency
    /\ \E p \in processed : Failing(p)
    /\ \E p \in processed : ~Failing(p)

\* C3: the batches the first FreezeAndBatchByTable returns after any sequence
\* of Add calls are an exact partition of the distinct (table, pk) pairs added:
\* the pairs of the batches are the pairs added, and no pair occurs twice.
C3_FirstFreezePartitionsAdded ==
    [][(~frozen /\ frozen')
          => /\ BatchPairs(allBatches') = added
             /\ PkCount(allBatches') = Cardinality(added)]_vars

\* A pair was added twice, and the first freeze split a table into batches.
C3_Witness ==
    /\ frozen
    /\ dupAdded
    /\ BatchPairs(allBatches) = added
    /\ \E i, k \in DOMAIN allBatches : i # k /\ allBatches[i].Table = allBatches[k].Table

\* C4: every batch FreezeAndBatchByTable(b) returns holds at most b pks, all of
\* them pks added for the batch's one table.
C4_BatchesBoundedOneTable ==
    frozen =>
        \A i \in DOMAIN allBatches :
            /\ Len(allBatches[i].Pks) <= batchsize
            /\ \A k \in DOMAIN allBatches[i].Pks :
                  [Table |-> allBatches[i].Table, Pk |-> allBatches[i].Pks[k]] \in added

\* A freeze with b >= 2 returned a full batch and a second batch of the same
\* table, and a batch of another table.
C4_Witness ==
    /\ frozen
    /\ batchsize >= 2
    /\ \E i, k \in DOMAIN allBatches :
          /\ i # k
          /\ allBatches[i].Table = allBatches[k].Table
          /\ Len(allBatches[i].Pks) = batchsize
    /\ \E i, k \in DOMAIN allBatches : allBatches[i].Table # allBatches[k].Table

\* C5: every entry whose send on the channel completed has been added to the
\* store before the store is frozen, and is in the batches reverified at
\* cutover.
C5_NoEntryLost ==
    frozen => /\ sent \subseteq added
              /\ sent \subseteq BatchPairs(allBatches)

\* The store was frozen after a scanner task and the listener (the only sender
\* of pk MaxPk) each completed a send.
C5_Witness ==
    /\ frozen
    /\ \E p \in sent : p.Pk = MaxPk
    /\ \E p \in sent : p.Pk <= MaxLivePk
    /\ MaxLivePk < MaxPk

\* C6: a call of the listener after the cutover flag was set returns the
\* protocol error at once, and no entry of its batch goes into the channel.
C6_ListenerRefusesAfterCutover ==
    [][(lsn'.calls = lsn.calls + 1 /\ verifyDuringCutoverStarted)
          => /\ lsn'.ret = ProtocolError
             /\ lsn'.pc = "idle"
             /\ consumer' = consumer
             /\ sent' = sent]_vars

\* The listener was called with the flag set and returned the protocol error.
C6_Witness ==
    /\ verifyDuringCutoverStarted
    /\ lsn.calls > 0
    /\ lsn.ret = ProtocolError

\* C7: no entry the consumer receives from the listener, and no pair the store
\* was given, is of a table whose name is ignored (T3, of a schema that is not
\* scanned, has one), while every event of the batch the listener is past
\* whose table is not ignored has been sent.
C7_IgnoredEventsDropped ==
    /\ consumer.origin = "listener" => ~NameIgnored(consumer.entry[1].Table)
    /\ \A p \in added : p.Table # NewTableIdentifierFromSchemaTable(T3)
    /\ lsn.pc \in {"loop", "send"} =>
          \A i \in 1..(lsn.idx - 1) :
              ~NameIgnored(lsn.evs[i].Table) => EventPair(lsn.evs[i]) \in sent

\* The listener is through a batch holding an event of an ignored table and one
\* of another table, and the store holds the pair of the latter.
C7_Witness ==
    /\ lsn.pc = "loop"
    /\ lsn.idx > Len(lsn.evs)
    /\ \E i \in DOMAIN lsn.evs : NameIgnored(lsn.evs[i].Table)
    /\ \E i \in DOMAIN lsn.evs :
          /\ ~NameIgnored(lsn.evs[i].Table)
          /\ EventPair(lsn.evs[i]) \in added

\* C8: a call of StartInBackground starts a background run only when no
\* VerifyDuringCutover was called and no StartInBackground succeeded before.
C8_StartInBackgroundRefusesAfterStart ==
    [][(Started' # Started) => (Started = {} /\ vdc[0].pc = "unused")]_vars

\* C9: the order of the phases is enforced at entry. VerifyBeforeCutover before
\* Initialize returns an error (it does not panic on the nil logger) and
\* starts no consumer and attaches no listener; before VerifyBeforeCutover has
\* returned, no call sets the cutover flag, closes the channel, freezes the
\* store or starts a background run.
C9_SequencingEnforcedAtEntry ==
    /\ ~logger => /\ consumer.pc = "none"
                  /\ ~listenerAttached
                  /\ panicked # "nil pointer dereference: v.logger"
    /\ ~beforeCutoverVerifyDone => /\ ~verifyDuringCutoverStarted
                                   /\ reverifyChan # "closed"
                                   /\ ~frozen
                                   /\ Started = {}

\* C10: no execution attempts to close the channel a second time.
C10_NoSecondClose == panicked # "close of closed channel"

\* C11: FreezeAndBatchByTable called on a store that a freeze has just left
\* (frozen, nothing added since: only a freeze leaves the map empty, and any
\* Add fills it) returns the pairs the freeze before it returned.
C11_FreezeIdempotent ==
    [][(/\ frozen
        /\ DOMAIN reverifyStore.MapStore = {}
        /\ DOMAIN reverifyStore'.MapStore = {})
          => BatchPairs(allBatches') = BatchPairs(allBatches)]_vars

\* C12: once FreezeAndBatchByTable has been called the store is drained and
\* takes no entry: no Add after the freeze inserts a pair.
C12_NoAddAfterFreeze == frozen => StorePairs(reverifyStore) = {}

\* C13: the slice compareHashes(src, tgt) returns lists, each once, exactly
\* the pks present on one side only or present on both with unequal
\* fingerprints; compareHashes(tgt, src) returns the same set, and
\* compareHashes(m, m) returns none.
C13_CompareHashesExact ==
    call.returned =>
        /\ Cardinality(SeqToSet(call.mismatches)) = Len(call.mismatches)
        /\ SeqToSet(call.mismatches) =
              {pk \in DOMAIN call.source \cup DOMAIN call.target :
                  \/ pk \notin DOMAIN call.source
                  \/ pk \notin DOMAIN call.target
                  \/ call.source[pk] # call.target[pk]}
        /\ \A swapped \in compareHashes(call.target, call.source) :
              SeqToSet(swapped) = SeqToSet(call.mismatches)
        /\ call.source = call.target => call.mismatches = <<>>

\* The call returned two pks: one present in src only, whose fingerprint is
\* empty, and one present on both sides with unequal fingerprints.
C13_Witness ==
    /\ call.returned
    /\ Len(call.mismatches) = 2
    /\ \E pk \in DOMAIN call.source \ DOMAIN call.target : call.source[pk] = NilHash
    /\ \E pk \in DOMAIN call.source \cap DOMAIN call.target :
          call.source[pk] # call.target[pk]

\* C14: the background goroutine signals its WaitGroup once, so the counter
\* never goes below zero (Done panics if it would); and when Wait has returned
\* after the one StartInBackground that succeeded, Result returns the result
\* and error of that run of VerifyDuringCutover with DoneTime set.
C14_BackgroundDoneOnce ==
    /\ panicked # "sync: negative WaitGroup counter"
    /\ (caller.method = "Wait" /\ Started = {1}) =>
          /\ Result[1].DoneTime
          /\ Result[1].VerificationResult = vdc[1].ret[1].Result
          /\ Result[2] = vdc[1].ret[1].Error

\* The normalization N of a column value: NULL is the string "NULL", "-0" in
\* a float column is "0", any other value is itself.
N(type, v) ==
    IF v = Null THEN "NULL"
    ELSE IF type = "TYPE_FLOAT" /\ v[1] = "-0" THEN "0"
    ELSE v[1]

\* C15: two rows of a table have equal fingerprints exactly when every column
\* value of one equals that of the other under N.
C15_FingerprintEqualIffNormalizedEqual ==
    call.returned =>
        ((call.fingerprintA = call.fingerprintB)
            <=> \A idx \in DOMAIN call.columns :
                   N(call.columns[idx], call.rowA[idx]) = N(call.columns[idx], call.rowB[idx]))

\* Equal fingerprints of two rows that differ: NULL against the string "NULL"
\* in a string column, -0 against 0 in a float column.
C15_Witness ==
    /\ call.returned
    /\ call.fingerprintA = call.fingerprintB
    /\ \E idx \in DOMAIN call.columns :
          /\ call.columns[idx] = "TYPE_STRING"
          /\ call.rowA[idx] = Null
          /\ call.rowB[idx] = Str("NULL")
    /\ \E idx \in DOMAIN call.columns :
          /\ call.columns[idx] = "TYPE_FLOAT"
          /\ call.rowA[idx] = Str("-0")
          /\ call.rowB[idx] = Str("0")

\* Both fetches of the call succeeded.
FetchesSucceeded == call.sourceFetch.err = "nil" /\ call.targetFetch.err = "nil"

\* The pks whose fetched fingerprints differ or are missing on one side.
FetchedMismatches ==
    {pk \in DOMAIN call.sourceFetch.hashes \cup DOMAIN call.targetFetch.hashes :
        \/ pk \notin DOMAIN call.sourceFetch.hashes
        \/ pk \notin DOMAIN call.targetFetch.hashes
        \/ call.sourceFetch.hashes[pk] # call.targetFetch.hashes[pk]}

\* C16: verifyPksDuringCutover returns ({true, ""}, nil) exactly when both
\* fetches succeed and no pk mismatches; ({false, message}, nil), the message
\* naming the table and exactly the mismatched pks, when both succeed and some
\* pk mismatches; and an error exactly when a fetch fails.
C16_FailureIsNotError ==
    call.returned =>
        /\ call.ret = Correct <=> (FetchesSucceeded /\ FetchedMismatches = {})
        /\ (FetchesSucceeded /\ FetchedMismatches # {}) =>
              /\ call.ret.Error = "nil"
              /\ ~call.ret.Result.DataCorrect
              /\ call.ret.Result.Message[1] = call.table
              /\ SeqToSet(call.ret.Result.Message[2]) =
                    {ToString(pk) : pk \in FetchedMismatches}
              /\ Len(call.ret.Result.Message[2]) = Cardinality(FetchedMismatches)
        /\ call.ret.Error # "nil" <=> ~FetchesSucceeded

\* A call returned a failure naming two pks, with no error.
C16_Witness ==
    /\ call.returned
    /\ FetchesSucceeded
    /\ Cardinality(FetchedMismatches) = 2
    /\ ~call.ret.Result.DataCorrect
    /\ call.ret.Error = "nil"

C18_NoSendAfterClose == panicked # "send on closed channel"

\* C19: VerifyBeforeCutover sets beforeCutoverVerifyDone on every return, so a
\* StartInBackground that follows a VerifyBeforeCutover that returned an error
\* is not refused for VerifyBeforeCutover not having been called.
C19_DoneAlsoOnError ==
    [][/\ (caller'.method = "VerifyBeforeCutover" /\ caller'.pc = "idle")
             => beforeCutoverVerifyDone'
       /\ (/\ caller.method = "VerifyBeforeCutover"
           /\ caller.pc = "idle"
           /\ caller.err # "nil"
           /\ caller'.method = "StartInBackground")
             => caller'.err # "VerifyBeforeCutover() must be called before this"]_vars

\* VerifyBeforeCutover returned the error of a table scan, and the
\* StartInBackground called next returned nil.
C19_Witness ==
    /\ scanPool.err # "nil"
    /\ beforeCutoverVerifyDone
    /\ caller.method = "StartInBackground"
    /\ caller.err = "nil"
    /\ vdc[0].pc = "unused"

\* C20: before cutover and under fair scheduling, every send on reverifyChan,
\* of a scan task or of the listener, is eventually received, every entry
\* received is eventually added, and VerifyBeforeCutover eventually returns,
\* marked done, also when a table scan fails and the pool stops early.
C20_NoDeadlockBeforeCutover ==
    /\ \A j \in Workers :
          \A n \in 1..MaxLivePk :
             (Len(scanW[j].pending) = n) ~> (Len(scanW[j].pending) < n)
    /\ (lsn.pc = "send") ~> (lsn.pc # "send")
    /\ (consumer.pc = "add") ~> (consumer.pc = "recv")
    /\ (caller.pc = "VerifyBeforeCutover")
          ~> (caller.pc = "idle" /\ beforeCutoverVerifyDone)

\* VerifyBeforeCutover returned the error of one table scan after entries of
\* a scan task and of the listener were received, both tables handed out.
C20_Witness ==
    /\ caller.method = "VerifyBeforeCutover"
    /\ caller.pc = "idle"
    /\ caller.err # "nil"
    /\ scanPool.next > Len(Tables)
    /\ \E p \in sent : p \in added
    /\ lsn.pc = "idle"
    /\ lsn.calls > 0
    /\ consumer.pc = "recv"

====
